---- MODULE Spec2Model ----
(***************************************************************************)
(* nuxt-graphql-client: configuration resolution (module.ts setup), the    *)
(* generation pipeline (generateGqlTypes / generate.ts prepareConfig), the *)
(* builder:watch hook, and the runtime composables.                        *)
(*                                                                         *)
(* JS string values are modelled as Text: a sequence of atoms, where the   *)
(* atom " " is a whitespace character and <<>> is the empty string.        *)
(* Identifiers that the code never computes on (client names, environment  *)
(* variable names) are TLA+ strings.                                       *)
(***************************************************************************)
EXTENDS Naturals, Sequences, FiniteSets, TLC

VARIABLES
    env,            \* process.env
    rcPublic,       \* nuxt.options.runtimeConfig.public.GQL_HOST / GQL_CLIENT_HOST
    opts,           \* the merged module options (config): names, clients, watch
    schemaFiles,    \* resolved schema paths that exist on disk
    phase,          \* "init" | "failed" | "ready"
    error,          \* the error setup threw, if any
    warnings,       \* clients for which logger.warn was called
    ctxClients,     \* ctx.clients
    configClients,  \* config.clients after resolution (mutated by prepareConfig)
    publicClients,  \* runtimeConfig.public['graphql-client'].clients
    privateClients, \* runtimeConfig['graphql-client'].clients
    disk,           \* files under the source directory
    passes,         \* invocations of generateGqlTypes, in start order
    template,       \* ctx.template
    templateBy,     \* the pass that wrote ctx.template last (0: none)
    events,         \* number of builder:watch events delivered so far
    lastEvent,      \* the builder:watch event delivered last: (event, path)
    processServer,  \* process.server (process.client is its negation)
    production,     \* process.env.NODE_ENV === 'production'
    rtConfig,       \* useRuntimeConfig().public['graphql-client'].clients
    gqlState,       \* nuxtApp._gqlState.value[client]: instance and its options
    GqlOperations,  \* #build/gql GqlOperations: the clients in key order, and their operations
    onError,        \* nuxtApp._gqlState.value.onError
    errState,       \* useState('_gqlErrors')
    requests,       \* operations dispatched and not yet answered
    dispatched,     \* every dispatch so far, in order
    handlerCalls,   \* every invocation of an error handler so far, in order
    failures,       \* number of failing responses so far
    lastCall,       \* the composable called last, with its arguments
    lastResponse,   \* the failing response the transport delivered last, and its request
    calls           \* number of composable calls so far

buildVars == <<env, rcPublic, opts, schemaFiles, phase, error, warnings, ctxClients,
               configClients, publicClients, privateClients, disk, passes,
               template, templateBy, events, lastEvent>>

runtimeVars == <<processServer, production, rtConfig, gqlState, GqlOperations, onError,
                 errState, requests, dispatched, handlerCalls, failures, lastCall,
                 lastResponse, calls>>

vars == <<buildVars, runtimeVars>>

-----------------------------------------------------------------------------
(* JS values *)

Undef == <<"undefined">>
Null == <<"null">>
EmptyText == <<>>
EmptyMap == [k \in {} |-> EmptyText]

\* JS truthiness of a string-or-undefined value
Truthy(t) == t # Undef /\ t # Null /\ t # EmptyText

\* a || b
OrElse(a, b) == IF Truthy(a) THEN a ELSE b

\* typeof t === 'string'
IsString(t) == t # Undef /\ t # Null

RECURSIVE TrimStart(_)
TrimStart(t) == IF t # <<>> /\ Head(t) = " " THEN TrimStart(Tail(t)) ELSE t

RECURSIVE TrimEnd(_)
TrimEnd(t) ==
    IF t # <<>> /\ t[Len(t)] = " " THEN TrimEnd(SubSeq(t, 1, Len(t) - 1)) ELSE t

\* String.prototype.trim
Trim(t) == TrimEnd(TrimStart(t))

\* `${type} ${value}`.trim()
AuthHeaderValue(type, value) == Trim(type \o <<" ">> \o value)

\* String.prototype.toUpperCase on the client names of the model
ToUpperCase(k) ==
    CASE k = "default" -> "DEFAULT"
      [] k = "blog" -> "BLOG"
      [] k = "Shop" -> "SHOP"
      [] OTHER -> k

-----------------------------------------------------------------------------
(* Inputs of setup *)

NoTokenIn == [kind |-> "absent", value |-> Undef, name |-> Undef, type |-> Undef]
NoHeaders == [has |-> FALSE, static |-> EmptyMap, hasServerOnly |-> FALSE,
              serverOnly |-> EmptyMap]

\* a client given as a bare host string
StringClient(host) ==
    [isString |-> TRUE, host |-> host, clientHost |-> Undef, token |-> NoTokenIn,
     retainToken |-> FALSE, schema |-> Undef, headers |-> NoHeaders,
     proxyCookies |-> "unset"]

\* a client given as an object
ObjectClient(host, clientHost, token, retainToken, schema, headers) ==
    [isString |-> FALSE, host |-> host, clientHost |-> clientHost, token |-> token,
     retainToken |-> retainToken, schema |-> schema, headers |-> headers,
     proxyCookies |-> "unset"]

\* process.env[name]
ProcessEnv(e, name) == IF name \in DOMAIN e THEN e[name] ELSE Undef

EnvVarMutNoUpper(k, suffix) ==
    IF k = "default" THEN "GQL_" \o suffix ELSE "GQL_" \o k \o "_" \o suffix

\* k === 'default' ? process.env.GQL_X : process.env[`GQL_${k.toUpperCase()}_X`]
EnvVar(k, suffix) ==
    IF k = "default" THEN "GQL_" \o suffix
    ELSE "GQL_" \o ToUpperCase(k) \o "_" \o suffix

\* typeof v !== 'string' && v.field
UserField(v, field) == IF v.isString THEN Undef ELSE v[field]

\* srcResolver.resolve(path)
SrcResolve(path) == <<"/src/">> \o path

\* existsSync(path)
ExistsSync(files, path) == path \in files

-----------------------------------------------------------------------------
(* setup: the per-client resolution loop (module.ts 64-113) *)

\* const host = runtimeHost || (typeof v === 'string' ? v : v?.host)
ResolvedHost(e, k, v) == OrElse(ProcessEnv(e, EnvVar(k, "HOST")), v.host)

\* const clientHost = runtimeClientHost || (typeof v !== 'string' && v.clientHost)
ResolvedClientHost(e, k, v) ==
    OrElse(ProcessEnv(e, EnvVar(k, "CLIENT_HOST")), UserField(v, "clientHost"))

\* (typeof v?.token === 'object' && v.token?.value) || (typeof v?.token === 'string' && v.token)
UserToken(v) ==
    IF v.isString \/ v.token.kind = "absent" THEN Undef ELSE v.token.value

\* const token = runtimeToken || (typeof v !== 'string' && (...))
ResolvedToken(e, k, v) == OrElse(ProcessEnv(e, EnvVar(k, "TOKEN")), UserToken(v))

\* typeof v !== 'string' && typeof v?.token === 'object' && v.token.name
UserTokenName(v) ==
    IF ~v.isString /\ v.token.kind = "object" THEN v.token.name ELSE Undef

\* const tokenName = runtimeTokenName || (...) || 'Authorization'
ResolvedTokenName(e, k, v) ==
    OrElse(ProcessEnv(e, EnvVar(k, "TOKEN_NAME")),
           OrElse(UserTokenName(v), <<"Authorization">>))

\* const tokenType = (... v?.token?.type !== undefined) ? v?.token?.type : 'Bearer'
\* type: typeof tokenType !== 'string' ? '' : tokenType
ResolvedTokenType(v) ==
    LET tokenType == IF ~v.isString /\ v.token.kind = "object" /\ v.token.type # Undef
                     THEN v.token.type ELSE <<"Bearer">>
    IN  IF IsString(tokenType) THEN tokenType ELSE EmptyText

\* const schema = (typeof v !== 'string' && v?.schema) && srcResolver.resolve(v.schema)
ResolvedSchema(v) ==
    IF Truthy(UserField(v, "schema")) THEN SrcResolve(v.schema) ELSE Undef

\* logger.warn(... The Schema provided ... does not exist ...)
SchemaWarning(files, v) ==
    Truthy(ResolvedSchema(v)) /\ ~ExistsSync(files, ResolvedSchema(v))

\* token: { ...(token && { value }), ...(tokenName && { name }), type }
ConfToken(e, k, v) ==
    LET token == ResolvedToken(e, k, v)
    IN  [hasValue |-> Truthy(token),
         value |-> IF Truthy(token) THEN token ELSE Undef,
         name |-> ResolvedTokenName(e, k, v),
         type |-> ResolvedTokenType(v)]

\* const conf = { ...v, host, ...clientHost, ...schema, token, proxyCookies }
Conf(e, files, k, v) ==
    LET clientHost == ResolvedClientHost(e, k, v)
        schema == ResolvedSchema(v)
    IN  [host |-> ResolvedHost(e, k, v),
         clientHost |-> IF Truthy(clientHost) THEN clientHost
                        ELSE UserField(v, "clientHost"),
         schema |-> IF Truthy(schema) /\ ExistsSync(files, schema) THEN schema
                    ELSE UserField(v, "schema"),
         token |-> ConfToken(e, k, v),
         retainToken |-> IF v.isString THEN FALSE ELSE v.retainToken,
         headers |-> IF v.isString THEN NoHeaders ELSE v.headers,
         proxyCookies |-> IF ~v.isString /\ v.proxyCookies # "unset"
                          THEN v.proxyCookies = "true" ELSE TRUE]

\* runtime/utils deepmerge, as used by setup on a fresh target: every key of the
\* source is copied over the target's
deepmerge(target, source) ==
    [key \in DOMAIN target \cup DOMAIN source |->
        IF key \in DOMAIN source THEN source[key] ELSE target[key]]

StripAlways(conf) == TRUE

\* if (!(typeof v !== 'string' && v?.retainToken)) { ...token.value = undefined }
StripToken(conf) == ~conf.retainToken

\* nuxt.options.runtimeConfig.public['graphql-client'].clients[k]
PublicConf(conf) ==
    LET copy == deepmerge(EmptyMap, conf)
    IN  IF Truthy(conf.token.value) /\ StripToken(conf)
        THEN [copy EXCEPT !.token = [@ EXCEPT !.hasValue = FALSE, !.value = Undef]]
        ELSE copy

-----------------------------------------------------------------------------
(* setup: implicit single-client mode and the loop over config.clients *)

NoError == [kind |-> "none", name |-> ""]

\* ctx.clients = Object.keys(config.clients); if (!ctx?.clients?.length)
ImplicitMode(o) == Len(o.names) = 0

\* process.env.GQL_HOST || nuxt.options.runtimeConfig.public.GQL_HOST
ImplicitHost(e, rc) == OrElse(ProcessEnv(e, "GQL_HOST"), rc.GQL_HOST)

\* process.env.GQL_CLIENT_HOST || nuxt.options.runtimeConfig.public.GQL_CLIENT_HOST
ImplicitClientHost(e, rc) ==
    OrElse(ProcessEnv(e, "GQL_CLIENT_HOST"), rc.GQL_CLIENT_HOST)

\* config.clients = !clientHost ? { default: host } : { default: { host, clientHost } }
ImplicitClient(e, rc) ==
    IF ~Truthy(ImplicitClientHost(e, rc))
    THEN StringClient(ImplicitHost(e, rc))
    ELSE ObjectClient(ImplicitHost(e, rc), ImplicitClientHost(e, rc), NoTokenIn,
                      FALSE, Undef, NoHeaders)

\* the keys of config.clients the loop iterates over, in order
LoopNames(o) == IF ImplicitMode(o) THEN <<"default">> ELSE o.names

\* the values of config.clients the loop iterates over
LoopClients(e, rc, o) ==
    IF ImplicitMode(o) THEN [k \in {"default"} |-> ImplicitClient(e, rc)]
    ELSE o.clients

MissingHostEnvOnly(e, k, v) == ~Truthy(ProcessEnv(e, EnvVar(k, "HOST")))

\* if (!host) { throw new Error(`GraphQL client (${k}) is missing it's host.`) }
MissingHost(e, k, v) == ~Truthy(ResolvedHost(e, k, v))

\* index of the first client at which the loop throws (0: none)
FirstMissing(e, names, clients) ==
    LET bad == {i \in 1..Len(names) : MissingHost(e, names[i], clients[names[i]])}
    IN  IF bad = {} THEN 0 ELSE CHOOSE i \in bad : \A j \in bad : i <= j

\* the clients whose loop iteration ran to its end
Resolved(e, names, clients) ==
    LET fm == FirstMissing(e, names, clients)
    IN  {names[i] : i \in 1..(IF fm = 0 THEN Len(names) ELSE fm - 1)}

\* a call of generateGqlTypes, suspended at its first await
NewPass(kind) ==
    [kind |-> kind, pc |-> "resolveFiles", documents |-> {}, plugins |-> <<>>,
     schema |-> <<>>]

NoTemplate == [set |-> FALSE, documents |-> {}, schema |-> <<>>, plugins |-> <<>>]

\* async setup (opts, nuxt), up to its await of the initial generateGqlTypes()
Setup ==
    /\ UNCHANGED runtimeVars
    /\ phase = "init"
    /\ IF ImplicitMode(opts) /\ ~Truthy(ImplicitHost(env, rcPublic))
       THEN /\ phase' = "failed"
            /\ error' = [kind |-> "GQL_HOST is not set in public runtimeConfig",
                         name |-> "GQL_HOST"]
            /\ UNCHANGED <<warnings, ctxClients, configClients, publicClients,
                           privateClients, passes>>
       ELSE LET names == LoopNames(opts)
                clients == LoopClients(env, rcPublic, opts)
                fm == FirstMissing(env, names, clients)
                done == Resolved(env, names, clients)
                conf == [k \in done |-> Conf(env, schemaFiles, k, clients[k])]
            IN  /\ ctxClients' = names
                /\ configClients' = [k \in done |-> deepmerge(EmptyMap, conf[k])]
                /\ publicClients' = [k \in done |-> PublicConf(conf[k])]
                /\ privateClients' =
                       [k \in {n \in done : Truthy(conf[n].token.value)} |->
                           [token |-> conf[k].token]]
                /\ warnings' = {k \in done : SchemaWarning(schemaFiles, clients[k])}
                /\ error' = IF fm = 0 THEN NoError
                            ELSE [kind |-> "GraphQL client is missing it's host",
                                  name |-> names[fm]]
                /\ phase' = IF fm = 0 THEN "setup" ELSE "failed"
                /\ passes' = IF fm = 0 THEN <<NewPass("initial")>> ELSE <<>>
    /\ UNCHANGED <<events, lastEvent, env, rcPublic, opts, schemaFiles, disk, template, templateBy>>

-----------------------------------------------------------------------------
(* Files: a path is the Text of its file name *)

MaxPasses == 3
MaxEvents == 2

Files ==
    { <<"queries", ".", "graphql">>,
      <<"foo", ".", "schema", ".", "graphql">>,
      <<"MySchema", ".", "gql">>,
      <<"schemas", "/", "types", ".", "gql">>,
      <<"draft", ".", "gql">>,
      <<"notes", ".", "md">> }

\* String.prototype.toLowerCase on the atoms of the model
ToLowerCase(a) ==
    CASE a = "Schema" -> "schema"
      [] a = "SCHEMA" -> "schema"
      [] a = "MySchema" -> "myschema"
      [] a = "Foo" -> "foo"
      [] OTHER -> a

\* atom.includes('schema')
IncludesSchema(a) == a \in {"schema", "schemas", "myschema"}

\* path.match(/\.(gql|graphql)$/), and the glob **/*.{gql,graphql}
IsDocumentPath(f) ==
    /\ Len(f) >= 2
    /\ f[Len(f)] \in {"gql", "graphql"}
    /\ f[Len(f) - 1] = "."

\* the positions of the path's last segment: what ([^/]+)\.(gql|graphql)$ matches
LastSegment(f) == {i \in 1..Len(f) : \A j \in i..Len(f) : f[j] # "/"}

\* f.match(/([^/]+)\.(gql|graphql)$/)?.[0]?.toLowerCase().includes('schema')
IsSchemaName(f) ==
    /\ IsDocumentPath(f)
    /\ Len(f) >= 3
    /\ \E i \in LastSegment(f) : IncludesSchema(ToLowerCase(f[i]))

\* !!statSync(srcResolver.resolve(f)).size
HasSize(d, f) == d[f] = "data"

\* a filter that lets zero-byte files through
allowDocumentAnySize(d, f) == ~IsSchemaName(f)

\* const allowDocument = (f) => !isSchema && !!statSync(f).size
allowDocument(d, f) == ~IsSchemaName(f) /\ HasSize(d, f)

\* the negative pattern '!**/schemas': a path below a directory named schemas
UnderSchemas(f) == \E i \in 1..(Len(f) - 1) : f[i] = "schemas" /\ f[i + 1] = "/"

\* resolveFiles(path, [gqlMatch, '!**/schemas'], ...): the files on disk that match
\* **/*.{gql,graphql} and lie below no directory named schemas
ResolveFiles(d) ==
    {f \in Files : d[f] # "absent" /\ IsDocumentPath(f) /\ ~UnderSchemas(f)}

\* (await resolveFiles(path, [gqlMatch, '!**/schemas'])).filter(allowDocument)
Documents(d) == {f \in ResolveFiles(d) : allowDocument(d, f)}

\* const plugins = ['typescript']; if (documents?.length) { plugins.push(...) }
Plugins(documents) ==
    IF documents # {} THEN <<"typescript", "typescript-operations", "ohmygql/plugin">>
    ELSE <<"typescript">>

-----------------------------------------------------------------------------
(* generate.ts: prepareConfig *)

\* const token = v?.token?.value && `${v?.token?.type} ${v?.token?.value}`.trim()
SchemaToken(v) ==
    IF Truthy(v.token.value) THEN AuthHeaderValue(v.token.type, v.token.value)
    ELSE Undef

\* the element prepareConfig's map callback returns for client v
SchemaEntry(v) ==
    IF Truthy(v.schema)
    THEN [kind |-> "path", at |-> v.schema, headers |-> EmptyMap]
    ELSE IF ~Truthy(v.token.value) /\ ~v.headers.has
    THEN [kind |-> "host", at |-> v.host, headers |-> EmptyMap]
    ELSE LET token == SchemaToken(v)
             serverHeaders == IF v.headers.hasServerOnly THEN v.headers.serverOnly
                              ELSE EmptyMap
             headers == IF v.headers.has THEN serverHeaders @@ v.headers.static
                        ELSE EmptyMap
         IN  [kind |-> "hostHeaders", at |-> v.host,
              headers |-> IF Truthy(token) THEN (v.token.name :> token) @@ headers
                          ELSE headers]

\* if (v?.headers?.serverOnly) { delete v.headers.serverOnly }: v after the callback
AfterSchemaEntry(v) ==
    IF Truthy(v.schema) \/ (~Truthy(v.token.value) /\ ~v.headers.has) THEN v
    ELSE [v EXCEPT !.headers = [@ EXCEPT !.hasServerOnly = FALSE,
                                         !.serverOnly = EmptyMap]]

\* const schema = Object.values(options.clients).map(...)
PrepareConfigSchema(names, clients) ==
    [i \in 1..Len(names) |-> SchemaEntry(clients[names[i]])]

\* options.clients after prepareConfig
PrepareConfigClients(clients) == [k \in DOMAIN clients |-> AfterSchemaEntry(clients[k])]

-----------------------------------------------------------------------------
(* generateGqlTypes (module.ts 130-174), one action per await *)

\* a call of generateGqlTypes that has started and not yet returned or thrown
InFlight(p) == p.pc \in {"resolveFiles", "generate", "prepareOperations"}

\* resolveFiles resolves: the documents are collected, the plugins chosen, and
\* generate() runs prepareConfig and awaits the code-generation engine
ResolveFilesDone(i) ==
    /\ UNCHANGED runtimeVars
    /\ passes[i].pc = "resolveFiles"
    /\ passes' = [passes EXCEPT ![i] =
                    [@ EXCEPT !.pc = "generate",
                              !.documents = Documents(disk),
                              !.plugins = Plugins(Documents(disk)),
                              !.schema = PrepareConfigSchema(ctxClients, configClients)]]
    /\ configClients' = PrepareConfigClients(configClients)
    /\ UNCHANGED <<events, lastEvent, env, rcPublic, opts, schemaFiles, phase, error, warnings, ctxClients,
                   publicClients, privateClients, disk, template, templateBy>>

\* the engine returns the generated text: ctx.template = await generate(...);
\* prepareOperations is awaited next
GenerateDone(i) ==
    /\ UNCHANGED runtimeVars
    /\ passes[i].pc = "generate"
    /\ template' = [set |-> TRUE, documents |-> passes[i].documents,
                    schema |-> passes[i].schema, plugins |-> passes[i].plugins]
    /\ templateBy' = i
    /\ passes' = [passes EXCEPT ![i] = [@ EXCEPT !.pc = "prepareOperations"]]
    /\ UNCHANGED <<events, lastEvent, env, rcPublic, opts, schemaFiles, phase, error, warnings, ctxClients,
                   configClients, publicClients, privateClients, disk>>

\* a pass whose failure clears the generated output
GenerateFailedClears(i) ==
    /\ UNCHANGED runtimeVars
    /\ passes[i].pc = "generate"
    /\ passes' = [passes EXCEPT ![i] = [@ EXCEPT !.pc = "failed"]]
    /\ phase' = IF passes[i].kind = "initial" THEN "failed" ELSE phase
    /\ error' = IF passes[i].kind = "initial"
                THEN [kind |-> "generation failed", name |-> ""] ELSE error
    /\ template' = NoTemplate
    /\ templateBy' = 0
    /\ UNCHANGED <<events, lastEvent, env, rcPublic, opts, schemaFiles, warnings, ctxClients,
                   configClients, publicClients, privateClients, disk>>

\* the engine fails: generate() rejects and the pass ends with that error
GenerateFailed(i) ==
    /\ UNCHANGED runtimeVars
    /\ passes[i].pc = "generate"
    /\ passes' = [passes EXCEPT ![i] = [@ EXCEPT !.pc = "failed"]]
    /\ phase' = IF passes[i].kind = "initial" THEN "failed" ELSE phase
    /\ error' = IF passes[i].kind = "initial"
                THEN [kind |-> "generation failed", name |-> ""] ELSE error
    /\ UNCHANGED <<events, lastEvent, env, rcPublic, opts, schemaFiles, warnings, ctxClients,
                   configClients, publicClients, privateClients, disk, template,
                   templateBy>>

\* prepareOperations resolves; prepareTemplate and prepareContext run; the initial
\* pass returns to setup, a watch pass awaits callHook('builder:generateApp')
PrepareOperationsDone(i) ==
    /\ UNCHANGED runtimeVars
    /\ passes[i].pc = "prepareOperations"
    /\ passes' = [passes EXCEPT ![i] =
                    [@ EXCEPT !.pc = IF passes[i].kind = "initial" THEN "done"
                                     ELSE "generateApp"]]
    /\ phase' = IF passes[i].kind = "initial" THEN "ready" ELSE phase
    /\ UNCHANGED <<events, lastEvent, env, rcPublic, opts, schemaFiles, error, warnings, ctxClients,
                   configClients, publicClients, privateClients, disk, template,
                   templateBy>>

\* builder:generateApp resolves and the hook logs its success
GenerateAppDone(i) ==
    /\ UNCHANGED runtimeVars
    /\ passes[i].pc = "generateApp"
    /\ passes' = [passes EXCEPT ![i] = [@ EXCEPT !.pc = "done"]]
    /\ UNCHANGED <<events, lastEvent, env, rcPublic, opts, schemaFiles, phase, error, warnings, ctxClients,
                   configClients, publicClients, privateClients, disk, template,
                   templateBy>>

-----------------------------------------------------------------------------
(* nuxt.hook('builder:watch', async (event, path) => ...) (module.ts 208-221) *)

\* whether the hook goes on to call generateGqlTypes
WatchTriggers(d, event, path) ==
    /\ IsDocumentPath(path)
    /\ event = "unlink" \/ allowDocument(d, path)

\* the file system changes and the watcher delivers the event to the hook, which
\* runs up to its first await
BuilderWatch(event, path, content) ==
    /\ UNCHANGED runtimeVars
    /\ phase = "ready"
    /\ Len(passes) < MaxPasses
    /\ events < MaxEvents
    /\ events' = events + 1
    /\ lastEvent' = [event |-> event, path |-> path]
    /\ CASE event = "add" -> disk[path] = "absent" /\ content # "absent"
         [] event = "change" -> disk[path] # "absent" /\ content # "absent"
         [] event = "unlink" -> disk[path] # "absent" /\ content = "absent"
    /\ disk' = [disk EXCEPT ![path] = content]
    /\ passes' = IF opts.watch /\ WatchTriggers(disk', event, path)
                 THEN Append(passes, NewPass("watch")) ELSE passes
    /\ UNCHANGED <<env, rcPublic, opts, schemaFiles, phase, error, warnings, ctxClients,
                   configClients, publicClients, privateClients, template, templateBy>>

-----------------------------------------------------------------------------
(* Runtime composables (runtime/composables/index.ts) *)

\* the transport's setOptions on the headers of its options: an empty header set
\* clears the headers; otherwise each key of the patch replaces or adds, and a key
\* patched to a falsy value is removed
SetHeaders(cur, hp) ==
    IF DOMAIN hp = {} THEN EmptyMap
    ELSE LET removed == {k \in DOMAIN hp : ~Truthy(hp[k])}
             put == DOMAIN hp \ removed
         IN  [k \in (DOMAIN cur \ removed) \cup put |->
                 IF k \in put THEN hp[k] ELSE cur[k]]

\* the transport's setOptions(patch)
setOptions(slot, patch) ==
    [slot EXCEPT
       !.headers = IF patch.hasHeaders THEN SetHeaders(@, patch.headers) ELSE @,
       !.mode = IF patch.hasCors THEN patch.mode ELSE @,
       !.credentials = IF patch.hasCors THEN patch.credentials ELSE @]

HeadersPatch(h) == [hasHeaders |-> TRUE, headers |-> h, hasCors |-> FALSE,
                    mode |-> Undef, credentials |-> Undef]

CorsPatch(mode, credentials) ==
    [hasHeaders |-> FALSE, headers |-> EmptyMap, hasCors |-> TRUE, mode |-> mode,
     credentials |-> credentials]

\* an absent client argument
NoClient == ""

\* client || 'default'
ClientOrDefault(client) == IF client = NoClient THEN "default" ELSE client

\* const setGqlState = ({ client = 'default', patch }) => { ...instance.setOptions(patch) }
setGqlState(st, client, patch) ==
    [st EXCEPT ![ClientOrDefault(client)] = setOptions(@, patch)]

\* useRuntimeConfig()...clients?.[client || 'default']?.headers
ClientHeaders(cfg, client) ==
    IF ClientOrDefault(client) \in DOMAIN cfg THEN cfg[ClientOrDefault(client)].headers
    ELSE NoHeaders

\* whether useGqlHeaders goes on to apply the default headers
RespectsDefaults(headers, respectDefaults) == respectDefaults /\ DOMAIN headers = {}

\* { ...clientHeaders, ...serverHeaders }, serverOnly having been deleted
DefaultHeaders(cfg, server, client) ==
    LET clientHeaders == ClientHeaders(cfg, client)
        serverHeaders == IF server /\ clientHeaders.hasServerOnly
                         THEN clientHeaders.serverOnly ELSE EmptyMap
    IN  serverHeaders @@ clientHeaders.static

\* useGqlHeaders: the runtime state it leaves
useGqlHeadersState(st, cfg, server, headers, client, respectDefaults) ==
    LET first == setGqlState(st, client, HeadersPatch(headers))
    IN  IF RespectsDefaults(headers, respectDefaults)
        THEN setGqlState(first, client, HeadersPatch(DefaultHeaders(cfg, server, client)))
        ELSE first

\* useGqlHeaders: the runtime configuration it leaves
\* if (clientHeaders?.serverOnly) { delete clientHeaders.serverOnly }
useGqlHeadersConfig(cfg, headers, client, respectDefaults) ==
    IF /\ RespectsDefaults(headers, respectDefaults)
       /\ ClientOrDefault(client) \in DOMAIN cfg
       /\ cfg[ClientOrDefault(client)].headers.hasServerOnly
    THEN [cfg EXCEPT ![ClientOrDefault(client)].headers =
             [@ EXCEPT !.hasServerOnly = FALSE, !.serverOnly = EmptyMap]]
    ELSE cfg

NoTokenConfig == [hasName |-> FALSE, name |-> Undef, hasType |-> FALSE, type |-> Undef]

\* const DEFAULT_AUTH = { type: 'Bearer', name: 'Authorization' }
DEFAULT_AUTH == [type |-> <<"Bearer">>, name |-> <<"Authorization">>]

\* config = { ...DEFAULT_AUTH, ...clientConfig name, ...clientConfig type, ...config }
TokenConfig(cfg, client, config) ==
    LET known == ClientOrDefault(client) \in DOMAIN cfg
        clientToken == cfg[ClientOrDefault(client)].token
    IN  [name |-> IF config.hasName THEN config.name
                  ELSE IF known /\ Truthy(clientToken.name) THEN clientToken.name
                  ELSE DEFAULT_AUTH.name,
         type |-> IF config.hasType THEN config.type
                  ELSE IF known /\ clientToken.type # Undef THEN clientToken.type
                  ELSE DEFAULT_AUTH.type]

TokenHeaderUntrimmed(type, token) ==
    IF ~Truthy(token) THEN Undef ELSE type \o <<" ">> \o token

\* !token ? undefined : `${config.type} ${token}`.trim()
TokenHeader(type, token) ==
    IF ~Truthy(token) THEN Undef ELSE AuthHeaderValue(type, token)

\* useGqlToken: the runtime state it leaves
useGqlTokenState(st, cfg, token, client, config) ==
    LET c == TokenConfig(cfg, client, config)
    IN  setGqlState(st, client, HeadersPatch(c.name :> TokenHeader(c.type, token)))

MaxCalls == 3

HeaderArgs ==
    { EmptyMap, <<"X-Custom">> :> <<"c">>, <<"X-Both">> :> <<"mine">> }

TokenArgs == { Undef, Null, EmptyText, <<"tok">>, <<" ", "tok", " ">> }

TokenConfigArgs ==
    { NoTokenConfig,
      [hasName |-> TRUE, name |-> <<"X-Call">>, hasType |-> FALSE, type |-> Undef],
      [hasName |-> FALSE, name |-> Undef, hasType |-> TRUE, type |-> EmptyText],
      [hasName |-> TRUE, name |-> <<"X-Call">>, hasType |-> TRUE, type |-> <<"Token">>] }

\* the client arguments for which state.value[client] exists
ClientArgs == {c \in {NoClient} \cup DOMAIN gqlState : ClientOrDefault(c) \in DOMAIN gqlState}

\* what no composable of the state model touches
StateUnchanged ==
    UNCHANGED <<buildVars, processServer, production, GqlOperations, onError, errState,
                requests, dispatched, handlerCalls, failures, lastResponse>>

\* useGqlHeaders({ headers, client, respectDefaults })
UseGqlHeaders(headers, client, respectDefaults) ==
    /\ calls < MaxCalls
    /\ client \in ClientArgs
    /\ gqlState' = useGqlHeadersState(gqlState, rtConfig, processServer, headers, client,
                                      respectDefaults)
    /\ rtConfig' = useGqlHeadersConfig(rtConfig, headers, client, respectDefaults)
    /\ lastCall' = [op |-> "useGqlHeaders", headers |-> headers, client |-> client,
                    respectDefaults |-> respectDefaults]
    /\ calls' = calls + 1
    /\ StateUnchanged

\* useGqlToken(token, { client, config })
UseGqlToken(token, client, config) ==
    /\ calls < MaxCalls
    /\ client \in ClientArgs
    /\ gqlState' = useGqlTokenState(gqlState, rtConfig, token, client, config)
    /\ lastCall' = [op |-> "useGqlToken", token |-> token, client |-> client,
                    config |-> config]
    /\ calls' = calls + 1
    /\ UNCHANGED rtConfig
    /\ StateUnchanged

\* useGqlCors({ mode, credentials, client })
UseGqlCors(mode, credentials, client) ==
    /\ calls < MaxCalls
    /\ client \in ClientArgs
    /\ gqlState' = setGqlState(gqlState, client, CorsPatch(mode, credentials))
    /\ lastCall' = [op |-> "useGqlCors", mode |-> mode, credentials |-> credentials,
                    client |-> client]
    /\ calls' = calls + 1
    /\ UNCHANGED rtConfig
    /\ StateUnchanged

-----------------------------------------------------------------------------
(* Dispatch and error capture (useAsyncGql, useGql, useGqlError) *)

MaxDispatches == 2
MaxRegistrations == 2

\* the operations dispatched; the ownership map may list each under any client or none
Operations == {"GetUser", "GetPost"}
Handlers == {"h1", "h2"}

OwningClientFirstKey(ops, operation) ==
    IF ops.names # <<>> THEN ops.names[1] ELSE "default"

\* the body the generated sdk sends for an operation: its document as the query
RequestBody(operation) == [query |-> <<"query", " ", operation, " ", "{", "}">>]

\* extractOperation(query): the name of the operation the query text defines
extractOperation(query) ==
    IF Len(query) >= 3 /\ query[1] \in {"query", "mutation", "subscription"}
    THEN query[3] ELSE ""

\* the responses of the transport: response.status and response._data
OkResponse ==
    [status |-> 200, data |-> [errorsIsArray |-> FALSE, errors |-> <<>>, message |-> ""]]

FailingResponses ==
    { [status |-> 401,
       data |-> [errorsIsArray |-> TRUE, errors |-> <<[message |-> "Unauthorized"]>>,
                 message |-> ""]],
      [status |-> 500,
       data |-> [errorsIsArray |-> FALSE, errors |-> <<>>, message |-> "Internal"]] }

NoResponse == [request |-> [id |-> 0], response |-> OkResponse]

\* Object.keys(GqlOperations).find(k => GqlOperations[k].includes(operation)) ?? 'default'
OwningClient(ops, operation) ==
    LET found == {i \in 1..Len(ops.names) : operation \in ops.ops[ops.names[i]]}
    IN  IF found = {} THEN "default"
        ELSE ops.names[CHOOSE i \in found : \A j \in found : i <= j]

\* useGql().handle(client): const { instance } = state.value?.[client || 'default']
handle(st, client) == st[ClientOrDefault(client)].instance

\* what dispatch and error capture leave alone
DispatchUnchanged ==
    UNCHANGED <<buildVars, processServer, production, rtConfig, gqlState, GqlOperations>>

\* useAsyncGql(operation, variables): the handler useAsyncData runs
UseAsyncGql(operation) ==
    /\ Len(dispatched) < MaxDispatches
    /\ LET client == OwningClient(GqlOperations, operation)
           request == [id |-> Len(dispatched) + 1, operation |-> operation,
                       body |-> RequestBody(operation), client |-> client,
                       instance |-> IF client \in DOMAIN gqlState
                                    THEN handle(gqlState, client)
                                    ELSE <<"TypeError">>]
       IN  /\ dispatched' = Append(dispatched, request)
           /\ requests' = IF client \in DOMAIN gqlState THEN requests \cup {request}
                          ELSE requests
    /\ UNCHANGED <<onError, errState, handlerCalls, failures, lastCall, lastResponse,
                   calls>>
    /\ DispatchUnchanged

\* the transport answers a request with a successful response
ResponseOk(request) ==
    /\ request \in requests
    /\ requests' = requests \ {request}
    /\ UNCHANGED <<onError, errState, dispatched, handlerCalls, failures, lastCall,
                   lastResponse, calls>>
    /\ DispatchUnchanged

\* the errors member of the response data, whatever it is
GqlErrorsUnwrapped(response) == response.data.errors

\* Array.isArray(response?._data?.errors) ? response?._data?.errors : [response?._data]
GqlErrorsOf(response) ==
    IF response.data.errorsIsArray THEN response.data.errors ELSE <<response.data>>

\* onResponseError: async ({ options, response }) => { errState.value = ...; onError }
ResponseError(request, response) ==
    /\ request \in requests
    /\ requests' = requests \ {request}
    /\ lastResponse' = [request |-> request, response |-> response]
    /\ failures' = failures + 1
    /\ errState' = [set |-> TRUE, id |-> failures + 1, client |-> request.client,
                    status |-> response.status,
                    operation |-> extractOperation(request.body.query),
                    gqlErrors |-> GqlErrorsOf(response)]
    /\ handlerCalls' = IF onError # "none"
                       THEN Append(handlerCalls,
                                   [handler |-> onError, via |-> "response",
                                    arg |-> errState'])
                       ELSE handlerCalls
    /\ UNCHANGED <<onError, dispatched, lastCall, calls>>
    /\ DispatchUnchanged

\* a registration that replays nothing
UseGqlErrorNoReplay(handler) ==
    /\ calls < MaxRegistrations
    /\ calls' = calls + 1
    /\ lastCall' = [op |-> "useGqlError", handler |-> handler]
    /\ onError' = IF ~processServer THEN handler
                  ELSE IF ~production THEN "console" ELSE "none"
    /\ UNCHANGED <<errState, requests, dispatched, handlerCalls, failures, lastResponse>>
    /\ DispatchUnchanged

\* useGqlError(onError)
UseGqlError(handler) ==
    /\ calls < MaxRegistrations
    /\ calls' = calls + 1
    /\ lastCall' = [op |-> "useGqlError", handler |-> handler]
    /\ onError' = IF ~processServer THEN handler
                  ELSE IF ~production THEN "console" ELSE "none"
    /\ handlerCalls' = IF errState.set
                       THEN Append(handlerCalls,
                                   [handler |-> handler, via |-> "registration",
                                    arg |-> errState])
                       ELSE handlerCalls
    /\ UNCHANGED <<errState, requests, dispatched, failures, lastResponse>>
    /\ DispatchUnchanged

-----------------------------------------------------------------------------
(* The configurations and file systems the model starts from *)

EnvHost == <<"https://env.host/graphql">>
EnvClientHost == <<"https://env.client/graphql">>
EnvToken == <<"env-token">>
EnvTokenName == <<"X-Env-Auth">>
UserHost == <<"https://user.host/graphql">>
UserClientHost == <<"https://user.client/graphql">>
UserToken1 == <<"user-token">>
UserTokenName1 == <<"X-User-Auth">>
RcHost == <<"https://rc.host/graphql">>
RcClientHost == <<"https://rc.client/graphql">>

\* the environment variables of client k, by setting
EnvVarsOf(k) ==
    CASE k = "default" ->
           [HOST |-> "GQL_HOST", CLIENT_HOST |-> "GQL_CLIENT_HOST",
            TOKEN |-> "GQL_TOKEN", TOKEN_NAME |-> "GQL_TOKEN_NAME"]
      [] k = "blog" ->
           [HOST |-> "GQL_BLOG_HOST", CLIENT_HOST |-> "GQL_BLOG_CLIENT_HOST",
            TOKEN |-> "GQL_BLOG_TOKEN", TOKEN_NAME |-> "GQL_BLOG_TOKEN_NAME"]
      [] k = "Shop" ->
           [HOST |-> "GQL_SHOP_HOST", CLIENT_HOST |-> "GQL_SHOP_CLIENT_HOST",
            TOKEN |-> "GQL_SHOP_TOKEN", TOKEN_NAME |-> "GQL_SHOP_TOKEN_NAME"]

ClientNames == {"default", "blog", "Shop"}

AllEnvVars ==
    UNION {{EnvVarsOf(k).HOST, EnvVarsOf(k).CLIENT_HOST, EnvVarsOf(k).TOKEN,
            EnvVarsOf(k).TOKEN_NAME} : k \in ClientNames}

\* an environment: the given variables set as given, every other one unset
EnvWith(assign) ==
    [n \in AllEnvVars |-> IF n \in DOMAIN assign THEN assign[n] ELSE Undef]

\* the environments that set the variables of client k, and the HOST of client other
EnvsOf(k, other) ==
    {EnvWith((EnvVarsOf(k).HOST :> h) @@ (EnvVarsOf(k).CLIENT_HOST :> c)
             @@ (EnvVarsOf(k).TOKEN :> t) @@ (EnvVarsOf(k).TOKEN_NAME :> n)
             @@ (EnvVarsOf(other).HOST :> o)) :
        h \in {Undef, EmptyText, EnvHost}, c \in {Undef, EnvClientHost},
        t \in {Undef, EnvToken}, n \in {Undef, EnvTokenName},
        o \in {Undef, EnvHost}}

TokenIns ==
    { NoTokenIn,
      [kind |-> "string", value |-> UserToken1, name |-> Undef, type |-> Undef],
      [kind |-> "object", value |-> UserToken1, name |-> UserTokenName1,
       type |-> <<"Basic">>],
      [kind |-> "object", value |-> Undef, name |-> UserTokenName1, type |-> Null],
      [kind |-> "object", value |-> UserToken1, name |-> Undef, type |-> EmptyText] }

StaticHeaders == (<<"X-Static">> :> <<"a">>) @@ (<<"X-Both">> :> <<"client">>)
ServerOnlyHeaders == (<<"X-Secret">> :> <<"s">>) @@ (<<"X-Both">> :> <<"server">>)

HeadersIns ==
    { NoHeaders,
      [has |-> TRUE, static |-> StaticHeaders, hasServerOnly |-> FALSE,
       serverOnly |-> EmptyMap],
      [has |-> TRUE, static |-> StaticHeaders, hasServerOnly |-> TRUE,
       serverOnly |-> ServerOnlyHeaders] }

ExistingSchema == <<"schema.gql">>
MissingSchema == <<"missing.gql">>

ObjectClients ==
    {ObjectClient(h, c, t, r, sc, hd) :
        h \in {Undef, UserHost}, c \in {Undef, UserClientHost}, t \in TokenIns,
        r \in BOOLEAN, sc \in {Undef, ExistingSchema, MissingSchema},
        hd \in HeadersIns}

ClientIns == ObjectClients \cup {StringClient(UserHost)}

\* a few clients for the configurations with several clients
FewClients ==
    { StringClient(UserHost),
      ObjectClient(Undef, Undef, NoTokenIn, FALSE, Undef, NoHeaders),
      ObjectClient(UserHost, Undef,
                   [kind |-> "string", value |-> UserToken1, name |-> Undef,
                    type |-> Undef],
                   FALSE, MissingSchema,
                   [has |-> TRUE, static |-> StaticHeaders, hasServerOnly |-> TRUE,
                    serverOnly |-> ServerOnlyHeaders]) }

NoRc == [GQL_HOST |-> Undef, GQL_CLIENT_HOST |-> Undef]

NoClients == [k \in {} |-> StringClient(UserHost)]

InitialDisk ==
    [f \in Files |-> IF f = <<"queries", ".", "graphql">> THEN "data" ELSE "absent"]

NoErrState == [set |-> FALSE, id |-> 0, client |-> "", status |-> 0, operation |-> "",
               gqlErrors |-> <<>>]

NoCall == [op |-> "none"]

\* the runtime before the application starts
RuntimeIdle ==
    /\ processServer = TRUE
    /\ production = FALSE
    /\ rtConfig = NoClients
    /\ gqlState = NoClients
    /\ GqlOperations = [names |-> <<>>, ops |-> NoClients]
    /\ onError = "none"
    /\ errState = NoErrState
    /\ requests = {}
    /\ dispatched = <<>>
    /\ handlerCalls = <<>>
    /\ failures = 0
    /\ lastCall = NoCall
    /\ lastResponse = NoResponse
    /\ calls = 0

NoEvent == [event |-> "none", path |-> <<>>]

\* the build side before setup runs, but for the inputs
BuildRest ==
    /\ schemaFiles = {SrcResolve(ExistingSchema)}
    /\ phase = "init"
    /\ error = NoError
    /\ warnings = {}
    /\ ctxClients = <<>>
    /\ configClients = NoClients
    /\ publicClients = NoClients
    /\ privateClients = NoClients
    /\ passes = <<>>
    /\ template = NoTemplate
    /\ templateBy = 0
    /\ events = 0
    /\ lastEvent = NoEvent

\* everything but the inputs, before setup runs
InitRest == BuildRest /\ RuntimeIdle

\* one configured client, drawn broadly
InitOneClient ==
    \E k \in {"default", "blog"} :
        /\ env \in EnvsOf(k, IF k = "default" THEN "blog" ELSE "default")
        /\ rcPublic = NoRc
        /\ \E v \in ClientIns :
              opts = [names |-> <<k>>, clients |-> [n \in {k} |-> v], watch |-> TRUE]

\* two configured clients
InitTwoClients ==
    \E ks \in {<<"default", "blog">>, <<"blog", "Shop">>} :
        /\ \E h1, h2 \in {Undef, EnvHost} :
              env = EnvWith((EnvVarsOf(ks[1]).HOST :> h1) @@ (EnvVarsOf(ks[2]).HOST :> h2))
        /\ rcPublic = NoRc
        /\ \E v1, v2 \in FewClients :
              opts = [names |-> ks, clients |-> (ks[1] :> v1) @@ (ks[2] :> v2),
                      watch |-> TRUE]

\* no configured client: implicit single-client mode
InitNoClient ==
    /\ \E h \in {Undef, EnvHost}, c \in {Undef, EnvClientHost}, t \in {Undef, EnvToken} :
          env = EnvWith(("GQL_HOST" :> h) @@ ("GQL_CLIENT_HOST" :> c)
                        @@ ("GQL_TOKEN" :> t))
    /\ \E h \in {Undef, RcHost}, c \in {Undef, RcClientHost} :
          rcPublic = [GQL_HOST |-> h, GQL_CLIENT_HOST |-> c]
    /\ opts = [names |-> <<>>, clients |-> NoClients, watch |-> TRUE]

InitResolve ==
    /\ InitOneClient \/ InitTwoClients \/ InitNoClient
    /\ disk = InitialDisk
    /\ InitRest

NextResolve ==
    \/ Setup
    \/ \E i \in 1..Len(passes) : ResolveFilesDone(i)
    \/ \E i \in 1..Len(passes) : GenerateDone(i)
    \/ \E i \in 1..Len(passes) : GenerateFailed(i)
    \/ \E i \in 1..Len(passes) : PrepareOperationsDone(i)

\* setup over every configuration, up to the end of the initial pass
SpecResolve == InitResolve /\ [][NextResolve]_vars

\* the configurations the watch model runs on
WatchConfigs ==
    { [names |-> <<"default">>, clients |-> [n \in {"default"} |-> StringClient(UserHost)]],
      [names |-> <<"default", "blog">>,
       clients |-> ("default" :> ObjectClient(UserHost, Undef,
                        [kind |-> "string", value |-> UserToken1, name |-> Undef,
                         type |-> Undef],
                        FALSE, Undef,
                        [has |-> TRUE, static |-> StaticHeaders, hasServerOnly |-> TRUE,
                         serverOnly |-> ServerOnlyHeaders]))
                   @@ ("blog" :> StringClient(UserHost))] }

Init ==
    /\ env = EnvWith(EmptyMap)
    /\ rcPublic = NoRc
    /\ \E c \in WatchConfigs, w \in BOOLEAN :
          opts = [names |-> c.names, clients |-> c.clients, watch |-> w]
    /\ disk \in {InitialDisk, [f \in Files |-> "absent"]}
    /\ InitRest

Next ==
    \/ Setup
    \/ \E i \in 1..Len(passes) : ResolveFilesDone(i)
    \/ \E i \in 1..Len(passes) : GenerateDone(i)
    \/ \E i \in 1..Len(passes) : GenerateFailed(i)
    \/ \E i \in 1..Len(passes) : PrepareOperationsDone(i)
    \/ \E i \in 1..Len(passes) : GenerateAppDone(i)
    \/ \E event \in {"add", "change", "unlink"}, path \in Files,
          content \in {"absent", "empty", "data"} :
          BuilderWatch(event, path, content)

Spec == Init /\ [][Next]_vars

\* any content of the source directory, which then stays as it is
InitDocuments ==
    /\ env = EnvWith(EmptyMap)
    /\ rcPublic = NoRc
    /\ \E c \in WatchConfigs :
          opts = [names |-> c.names, clients |-> c.clients, watch |-> FALSE]
    /\ disk \in [Files -> {"absent", "empty", "data"}]
    /\ InitRest

\* setup and its initial generation pass over every content of the source directory
SpecDocuments == InitDocuments /\ [][NextResolve]_vars

-----------------------------------------------------------------------------
(* The runtime models *)

\* the build side as the runtime models hold it
BuildIdle ==
    /\ env = EnvWith(EmptyMap)
    /\ rcPublic = NoRc
    /\ opts = [names |-> <<>>, clients |-> NoClients, watch |-> FALSE]
    /\ disk = InitialDisk
    /\ BuildRest

UserTokenIn ==
    [kind |-> "object", value |-> UserToken1, name |-> UserTokenName1, type |-> <<"Basic">>]

ServerOnlyIn ==
    [has |-> TRUE, static |-> StaticHeaders, hasServerOnly |-> TRUE,
     serverOnly |-> ServerOnlyHeaders]

\* the module options the runtime models' applications were built from
RuntimeConfigs ==
    { [names |-> <<"default">>,
       clients |-> [n \in {"default"} |->
                       ObjectClient(UserHost, Undef, UserTokenIn, FALSE, Undef,
                                    ServerOnlyIn)]],
      [names |-> <<"default", "blog">>,
       clients |-> ("default" :> StringClient(UserHost))
                   @@ ("blog" :> ObjectClient(UserHost, Undef,
                                   [kind |-> "object", value |-> Undef, name |-> Undef,
                                    type |-> EmptyText],
                                   FALSE, Undef, ServerOnlyIn))],
      [names |-> <<"blog", "Shop">>,
       clients |-> ("blog" :> StringClient(UserHost))
                   @@ ("Shop" :> StringClient(UserHost))] }

\* the client-exposed configuration setup resolves from module options c
RuntimeConfigOf(c) ==
    [k \in DOMAIN c.clients |->
        PublicConf(Conf(EnvWith(EmptyMap), {}, k, c.clients[k]))]

\* the runtime state the plugin creates: one slot and one instance per client
InitialState(c, headers) ==
    [k \in DOMAIN c.clients |->
        [instance |-> <<"instance", k>>, headers |-> headers, mode |-> Undef,
         credentials |-> Undef]]

InitState ==
    /\ BuildIdle
    /\ processServer \in BOOLEAN
    /\ production = FALSE
    /\ \E c \in RuntimeConfigs, h \in {EmptyMap, <<"X-Custom">> :> <<"old">>} :
          /\ rtConfig = RuntimeConfigOf(c)
          /\ gqlState = InitialState(c, h)
          /\ GqlOperations = [names |-> c.names, ops |-> [k \in DOMAIN c.clients |-> {}]]
    /\ onError = "none"
    /\ errState = NoErrState
    /\ requests = {}
    /\ dispatched = <<>>
    /\ handlerCalls = <<>>
    /\ failures = 0
    /\ lastCall = NoCall
    /\ lastResponse = NoResponse
    /\ calls = 0

NextState ==
    \/ \E headers \in HeaderArgs, client \in ClientArgs, respectDefaults \in BOOLEAN :
          UseGqlHeaders(headers, client, respectDefaults)
    \/ \E token \in TokenArgs, client \in ClientArgs, config \in TokenConfigArgs :
          UseGqlToken(token, client, config)
    \/ \E mode \in {Undef, <<"cors">>}, credentials \in {Undef, <<"include">>},
          client \in ClientArgs :
          UseGqlCors(mode, credentials, client)

\* the header, token and CORS composables on the runtime state
SpecState == InitState /\ [][NextState]_vars

\* the ownership maps of configuration c: every listing of the operations under
\* its clients and, where no client is named default, those listings that put an
\* operation under one client at most
OwnershipMaps(c) ==
    {ops \in [DOMAIN c.clients -> SUBSET Operations] :
        \/ "default" \in DOMAIN c.clients
        \/ \A k1, k2 \in DOMAIN c.clients : k1 # k2 => ops[k1] \cap ops[k2] = {}}

\* in client context NODE_ENV plays no part in what useGqlError registers
InitDispatch ==
    /\ BuildIdle
    /\ processServer \in BOOLEAN
    /\ production \in (IF processServer THEN BOOLEAN ELSE {FALSE})
    /\ \E c \in RuntimeConfigs :
          /\ rtConfig = RuntimeConfigOf(c)
          /\ gqlState = InitialState(c, EmptyMap)
          /\ \E ops \in OwnershipMaps(c) :
                GqlOperations = [names |-> c.names, ops |-> ops]
    /\ onError = "none"
    /\ errState = NoErrState
    /\ requests = {}
    /\ dispatched = <<>>
    /\ handlerCalls = <<>>
    /\ failures = 0
    /\ lastCall = NoCall
    /\ lastResponse = NoResponse
    /\ calls = 0

NextDispatch ==
    \/ \E operation \in Operations : UseAsyncGql(operation)
    \/ \E request \in requests : ResponseOk(request)
    \/ \E request \in requests, response \in FailingResponses :
          ResponseError(request, response)
    \/ \E handler \in Handlers : UseGqlError(handler)

\* operation dispatch, responses and error handlers
SpecDispatch == InitDispatch /\ [][NextDispatch]_vars

-----------------------------------------------------------------------------
(* What the claims expect of resolution, stated on the inputs *)

\* whether a value is set: present and not empty
IsSet(t) == Truthy(t)

\* the value of client k's environment variable for a setting
EnvSetting(k, setting) == env[EnvVarsOf(k)[setting]]

\* the value a client's user configuration gives for a setting
UserSetting(v, setting) ==
    CASE setting = "HOST" -> v.host
      [] setting = "CLIENT_HOST" -> IF v.isString THEN Undef ELSE v.clientHost
      [] setting = "TOKEN" ->
           IF ~v.isString /\ v.token.kind \in {"string", "object"} THEN v.token.value
           ELSE Undef
      [] setting = "TOKEN_NAME" ->
           IF ~v.isString /\ v.token.kind = "object" THEN v.token.name ELSE Undef

\* the module default of a setting
DefaultSetting(setting) == IF setting = "TOKEN_NAME" THEN <<"Authorization">> ELSE Undef

\* environment first, then user configuration, then the default
ExpectedSetting(k, v, setting) ==
    IF IsSet(EnvSetting(k, setting)) THEN EnvSetting(k, setting)
    ELSE IF IsSet(UserSetting(v, setting)) THEN UserSetting(v, setting)
    ELSE DefaultSetting(setting)

\* the resolved value of a setting in a client descriptor
DescriptorSetting(conf, setting) ==
    CASE setting = "HOST" -> conf.host
      [] setting = "CLIENT_HOST" -> conf.clientHost
      [] setting = "TOKEN" -> conf.token.value
      [] setting = "TOKEN_NAME" -> conf.token.name

Settings == {"HOST", "CLIENT_HOST", "TOKEN", "TOKEN_NAME"}

\* the clients the user configuration declares and setup has resolved
ConfiguredResolved == {k \in DOMAIN configClients : ~ImplicitMode(opts)}

\* the clients setup has resolved, with the configuration each was resolved from
InputOf(k) == LoopClients(env, rcPublic, opts)[k]

-----------------------------------------------------------------------------
(* C1 *)

PassesInFlight == {i \in 1..Len(passes) : InFlight(passes[i])}

\* C1: no two generation passes are in flight at the same time, and once every
\* pass has completed ctx.template holds the output of the pass started last.
C1_PassesSerialized ==
    /\ Cardinality(PassesInFlight) <= 1
    /\ (passes # <<>> /\ \A i \in 1..Len(passes) : passes[i].pc = "done")
          => templateBy = Len(passes)

-----------------------------------------------------------------------------
(* C2 *)

\* C2: once setup has finished, no client of the client-exposed configuration
\* carries serverOnly headers.
C2_NoServerOnlyInPublicConfig ==
    phase = "ready" =>
        \A k \in DOMAIN publicClients : ~publicClients[k].headers.hasServerOnly

-----------------------------------------------------------------------------
(* C3 *)

\* C3: for every client with a resolved token, the client-exposed token value is
\* undefined unless retainToken is set, in which case it is the resolved token;
\* either way the server-only configuration holds the token's value, name and type.
C3_TokenRetention ==
    \A k \in DOMAIN publicClients :
        LET v == InputOf(k)
            token == ExpectedSetting(k, v, "TOKEN")
            retain == ~v.isString /\ v.retainToken
        IN  IsSet(token) =>
              /\ publicClients[k].token.value = IF retain THEN token ELSE Undef
              /\ k \in DOMAIN privateClients
              /\ privateClients[k].token.value = token
              /\ privateClients[k].token.name = ExpectedSetting(k, v, "TOKEN_NAME")
              /\ IsString(privateClients[k].token.type)

\* a client whose token came from the environment and was stripped from the
\* client-exposed configuration
C3_Witness ==
    \E k \in DOMAIN privateClients :
        /\ ~InputOf(k).retainToken
        /\ publicClients[k].token.value = Undef
        /\ privateClients[k].token.value = EnvToken

-----------------------------------------------------------------------------
(* C4 *)

\* C4: for every configured client and each of host, clientHost, token value and
\* token header name, the resolved value is the client's environment variable when
\* set, else the user configuration's value when set, else the module default.
C4_Precedence ==
    \A k \in ConfiguredResolved : \A setting \in Settings :
        LET expected == ExpectedSetting(k, opts.clients[k], setting)
            got == DescriptorSetting(configClients[k], setting)
        IN  IF IsSet(expected) THEN got = expected ELSE ~IsSet(got)

\* a client other than default whose host is set in both places, resolved from
\* its upper-cased environment variable
C4_Witness ==
    /\ "blog" \in ConfiguredResolved
    /\ env["GQL_BLOG_HOST"] = EnvHost
    /\ opts.clients["blog"].host = UserHost
    /\ configClients["blog"].host = EnvHost
    /\ configClients["blog"].token.name = <<"Authorization">>

-----------------------------------------------------------------------------
(* C5 *)

\* the configured clients whose host is unset after merging
Hostless == {i \in 1..Len(opts.names) :
                ~IsSet(ExpectedSetting(opts.names[i], opts.clients[opts.names[i]], "HOST"))}

-----------------------------------------------------------------------------
(* C10 *)

\* the schema entries handed to code generation for the client at position i
EntriesOf(i) == {passes[p].schema[i] : p \in {q \in 1..Len(passes) : passes[q].schema # <<>>}}

\* C10: a declared schema path that does not exist yields a warning, a descriptor
\* without schema path and the host as the schema handed to code generation; a
\* declared path that exists is kept and is the schema handed to code generation.
C10_MissingSchemaFallsBackToHost ==
    \A i \in 1..Len(ctxClients) :
        LET k == ctxClients[i]
            v == InputOf(k)
            declared == IF v.isString THEN Undef ELSE v.schema
        IN  (k \in DOMAIN configClients /\ IsSet(declared)) =>
              IF SrcResolve(declared) \in schemaFiles
              THEN /\ configClients[k].schema = SrcResolve(declared)
                   /\ \A e \in EntriesOf(i) : e.kind = "path" /\ e.at = SrcResolve(declared)
              ELSE /\ phase # "failed"
                   /\ k \in warnings
                   /\ ~IsSet(configClients[k].schema)
                   /\ \A e \in EntriesOf(i) :
                         e.kind # "path" /\ e.at = configClients[k].host

-----------------------------------------------------------------------------
(* C6 *)

\* C6: after useGqlToken, with scheme and header name taken from the call's config,
\* else from the client's resolved configuration, else Bearer / Authorization, the
\* client's header of that name is "<scheme> <token>" trimmed when the token is a
\* non-empty string, and is absent from the state when the token is empty, null or
\* undefined.
C6_TokenHeader ==
    lastCall.op = "useGqlToken" =>
        LET c == IF lastCall.client = NoClient THEN "default" ELSE lastCall.client
            resolved == rtConfig[c].token
            name == IF lastCall.config.hasName THEN lastCall.config.name
                    ELSE IF IsSet(resolved.name) THEN resolved.name
                    ELSE <<"Authorization">>
            scheme == IF lastCall.config.hasType THEN lastCall.config.type
                      ELSE IF resolved.type # Undef THEN resolved.type
                      ELSE <<"Bearer">>
            headers == gqlState[c].headers
        IN  IF lastCall.token \notin {Undef, Null, EmptyText}
            THEN /\ name \in DOMAIN headers
                 /\ headers[name] = Trim(scheme \o <<" ">> \o lastCall.token)
            ELSE name \notin DOMAIN headers

\* a token set with an empty scheme: the header is the token, without the blank
C6_Witness ==
    /\ lastCall.op = "useGqlToken"
    /\ lastCall.token = <<"tok">>
    /\ lastCall.client = "blog"
    /\ ~lastCall.config.hasType
    /\ gqlState["blog"].headers[<<"Authorization">>] = <<"tok">>

-----------------------------------------------------------------------------
(* C7 *)

\* the invocations of user handlers with the failure captured as number f
Deliveries(f) ==
    {i \in 1..Len(handlerCalls) :
        handlerCalls[i].arg.id = f /\ handlerCalls[i].handler \in Handlers}

\* C7: no captured failure causes more than one invocation of a user error handler.
C7_DeliveredAtMostOnce ==
    \A f \in 1..failures : Cardinality(Deliveries(f)) <= 1

-----------------------------------------------------------------------------
(* C8 *)

\* the clients whose operation list contains op
Owners(op) == {k \in DOMAIN GqlOperations.ops : op \in GqlOperations.ops[k]}

\* C8: every dispatched operation is executed on the instance held in the runtime
\* state of a client that owns it, and an operation no client owns on the default
\* client's instance.
C8_DispatchOnOwningClient ==
    \A i \in 1..Len(dispatched) :
        LET d == dispatched[i]
        IN  IF Owners(d.operation) # {}
            THEN /\ d.client \in Owners(d.operation)
                 /\ d.instance = gqlState[d.client].instance
                 /\ \A k \in DOMAIN gqlState \ Owners(d.operation) :
                       d.instance # gqlState[k].instance
            ELSE /\ d.client = "default"
                 /\ "default" \in DOMAIN gqlState
                       => d.instance = gqlState["default"].instance

\* clients default and blog, GetPost owned by blog alone: it runs on blog's instance
C8_Witness ==
    /\ GqlOperations.names = <<"default", "blog">>
    /\ Owners("GetPost") = {"blog"}
    /\ \E i \in 1..Len(dispatched) :
          /\ dispatched[i].operation = "GetPost"
          /\ dispatched[i].instance = gqlState["blog"].instance
          /\ dispatched[i].instance # gqlState["default"].instance

-----------------------------------------------------------------------------
(* C9 *)

\* C9: useGqlHeaders called again with the arguments of the call before it leaves
\* the runtime state and the resolved default headers as the first call left them.
C9_HeadersIdempotent ==
    [][(lastCall.op = "useGqlHeaders" /\ lastCall' = lastCall)
          => (gqlState' = gqlState /\ rtConfig' = rtConfig)]_vars

-----------------------------------------------------------------------------
(* C11 *)

\* the passes that fail in the step at hand
FailingNow == {i \in 1..Len(passes) : passes[i].pc = "generate" /\ passes'[i].pc = "failed"}

\* the passes whose generate() resolves in the step at hand
SucceedingNow ==
    {i \in 1..Len(passes) : passes[i].pc = "generate" /\ passes'[i].pc = "prepareOperations"}

\* what a step does to the generated output when a pass fails or succeeds in it
FailureKeepsOutput ==
    /\ \A i \in FailingNow :
          /\ template' = template
          /\ templateBy' = templateBy
          /\ passes[i].kind = "initial" =>
                 phase' = "failed" /\ error'.kind = "generation failed"
    /\ template' # template =>
          \E j \in SucceedingNow :
              template' = [set |-> TRUE, documents |-> passes[j].documents,
                           schema |-> passes[j].schema, plugins |-> passes[j].plugins]

\* C11: a pass that fails ends as failed (the initial pass fails setup with the
\* error) and leaves ctx.template as it was; ctx.template changes only when a
\* pass succeeds, and then to the whole output of that pass.
C11_FailedPassKeepsOutput == [][FailureKeepsOutput]_vars

\* a watch pass over a changed document set has failed, and the output of an
\* earlier pass over the former documents is still in place
C11_Witness ==
    \E i \in 1..Len(passes) :
        /\ passes[i].kind = "watch"
        /\ passes[i].pc = "failed"
        /\ template.set
        /\ templateBy # i
        /\ template.documents # passes[i].documents
        /\ \A j \in 1..Len(passes) : j # i => passes[j].pc \in {"done", "generateApp"}

-----------------------------------------------------------------------------
(* C12 *)

\* the passes that have collected their documents
Collected == {i \in 1..Len(passes) : passes[i].pc # "resolveFiles"}

\* the files with a .gql or .graphql extension and no "schema" in their file name
NamedAsDocuments ==
    { <<"queries", ".", "graphql">>, <<"draft", ".", "gql">>,
      <<"schemas", "/", "types", ".", "gql">> }

\* C12 as stated: the document set of a pass is exactly the files with a .gql or
\* .graphql extension, without "schema" in their file name in any letter case, and
\* of non-zero size.
C12_DocumentSetAsStated ==
    \A i \in Collected :
        passes[i].documents = {f \in NamedAsDocuments : disk[f] = "data"}

\* C12: the document set of a pass is exactly the files with a .gql or .graphql
\* extension, without "schema" in their file name in any letter case, of non-zero
\* size, and below no directory named schemas.
C12_DocumentSet ==
    \A i \in Collected :
        passes[i].documents =
            {f \in NamedAsDocuments \ {<<"schemas", "/", "types", ".", "gql">>} :
                disk[f] = "data"}

\* foo.schema.graphql, MySchema.gql and schemas/types.gql hold data, draft.gql is
\* empty, and the pass has collected queries.graphql alone
C12_Witness ==
    /\ disk[<<"queries", ".", "graphql">>] = "data"
    /\ disk[<<"foo", ".", "schema", ".", "graphql">>] = "data"
    /\ disk[<<"MySchema", ".", "gql">>] = "data"
    /\ disk[<<"schemas", "/", "types", ".", "gql">>] = "data"
    /\ disk[<<"draft", ".", "gql">>] = "empty"
    /\ disk[<<"notes", ".", "md">>] = "data"
    /\ Collected # {}
    /\ \A i \in Collected : passes[i].documents = {<<"queries", ".", "graphql">>}

-----------------------------------------------------------------------------
(* C13 *)

\* the document files of the model and, among them, those the filter lets through
\* when they hold data
DocumentPaths ==
    { <<"queries", ".", "graphql">>, <<"foo", ".", "schema", ".", "graphql">>,
      <<"MySchema", ".", "gql">>, <<"schemas", "/", "types", ".", "gql">>,
      <<"draft", ".", "gql">> }

Unfiltered ==
    { <<"queries", ".", "graphql">>, <<"schemas", "/", "types", ".", "gql">>,
      <<"draft", ".", "gql">> }

\* C13, the trigger: with watching enabled a watch event starts exactly one pass
\* when its path is a document file and either the event is a deletion or the file
\* passes the schema-name and zero-byte filter, and otherwise starts no pass; no
\* event touches the generated output; without watching no event starts a pass.
WatchEventTriggers ==
    events' = events + 1 =>
        LET f == lastEvent'.path
            triggering ==
                /\ opts.watch
                /\ f \in DocumentPaths
                /\ \/ lastEvent'.event = "unlink"
                   \/ f \in Unfiltered /\ disk'[f] = "data"
        IN  /\ template' = template
            /\ IF triggering
               THEN /\ Len(passes') = Len(passes) + 1
                    /\ passes'[Len(passes')].kind = "watch"
                    /\ passes'[Len(passes')].pc = "resolveFiles"
                    /\ \A i \in 1..Len(passes) : passes'[i] = passes[i]
               ELSE passes' = passes

C13_EventsTriggerOnePass == [][WatchEventTriggers]_vars

\* C13: with watching enabled, once the passes the events have triggered are
\* complete, the generated output reflects the document set on disk. (A file
\* emptied by a modify event, which the filter keeps from triggering a pass, is
\* set aside: the statement holds for the states with no zero-byte file.)
C13_OutputReflectsDisk ==
    ( /\ opts.watch
      /\ phase = "ready"
      /\ \A i \in 1..Len(passes) : passes[i].pc = "done"
      /\ \A f \in Files : disk[f] # "empty" )
    => /\ template.set
       /\ template.documents =
              {f \in {<<"queries", ".", "graphql">>, <<"draft", ".", "gql">>} :
                  disk[f] = "data"}

-----------------------------------------------------------------------------
(* C14 *)

\* the slot a failing response leaves: the client the request went through, the
\* response's status, the request's operation and the response's GraphQL errors
SlotIs(slot, request, response) ==
    /\ slot.set
    /\ slot.client = request.client
    /\ slot.status = response.status
    /\ slot.operation = request.operation
    /\ slot.gqlErrors = IF response.status = 401
                        THEN <<[message |-> "Unauthorized"]>>
                        ELSE <<[errorsIsArray |-> FALSE, errors |-> <<>>,
                                message |-> "Internal"]>>

\* what a step does to the error slot
SlotFollowsResponses ==
    IF requests' # requests /\ dispatched' = dispatched
    THEN IF failures' = failures
         THEN errState' = errState /\ handlerCalls' = handlerCalls
         ELSE /\ SlotIs(errState', lastResponse'.request, lastResponse'.response)
              /\ lastResponse'.request \in requests
              /\ handlerCalls' =
                     IF onError # "none"
                     THEN Append(handlerCalls, [handler |-> onError, via |-> "response",
                                                arg |-> errState'])
                     ELSE handlerCalls
    ELSE errState' = errState

\* C14: every failing response overwrites the error slot with its client, status,
\* operation and GraphQL errors and the handler registered at that moment is called
\* with the new slot value; successful responses and every other step leave the
\* slot unchanged, so the slot holds the most recent failing response.
C14_SlotHoldsLastFailure == [][SlotFollowsResponses]_vars

\* a second failure, of GetPost on client blog with status 500, has overwritten
\* the slot a 401 had written, and the handler was called with each
C14_Witness ==
    /\ failures = 2
    /\ errState.client = "blog"
    /\ errState.operation = "GetPost"
    /\ errState.status = 500
    /\ Len(handlerCalls) = 2
    /\ handlerCalls[1].arg.status = 401
    /\ handlerCalls[2].arg = errState
    /\ handlerCalls[2].handler = "h1"

-----------------------------------------------------------------------------
(* C15 *)

\* what a call of useGqlError does with the captured failure
RegistrationReplays ==
    (calls' = calls + 1 /\ lastCall'.op = "useGqlError") =>
        /\ errState' = errState
        /\ handlerCalls' =
               IF errState.set
               THEN Append(handlerCalls, [handler |-> lastCall'.handler,
                                          via |-> "registration", arg |-> errState])
               ELSE handlerCalls

\* C15: a handler registered through useGqlError after a failure has been captured
\* is called with the captured failure during the registration; a registration
\* before any failure calls no handler.
C15_RegistrationReplaysFailure == [][RegistrationReplays]_vars

\* h2 registered first after a failure with status 500 and was called with it
C15_Witness ==
    /\ calls = 1
    /\ lastCall.op = "useGqlError"
    /\ lastCall.handler = "h2"
    /\ errState.set
    /\ errState.status = 500
    /\ handlerCalls = <<[handler |-> "h2", via |-> "registration", arg |-> errState]>>

-----------------------------------------------------------------------------
(* C16 *)

\* the schema spec entry of client k as its resolved configuration gives it: the
\* schema path, else the bare host, else the host with the static headers, the
\* server-only headers merged in, and the auth header under the token's name
ExpectedEntry(k) ==
    LET conf == publicClients[k]
        token == IF k \in DOMAIN privateClients THEN privateClients[k].token
                 ELSE conf.token
        auth == IF IsSet(token.value)
                THEN token.name :> Trim(token.type \o <<" ">> \o token.value)
                ELSE EmptyMap
        static == IF conf.headers.has THEN conf.headers.static ELSE EmptyMap
        serverOnly == IF conf.headers.has /\ conf.headers.hasServerOnly
                      THEN conf.headers.serverOnly ELSE EmptyMap
    IN  IF IsSet(conf.schema)
        THEN [kind |-> "path", at |-> conf.schema, headers |-> EmptyMap]
        ELSE IF ~IsSet(token.value) /\ ~conf.headers.has
        THEN [kind |-> "host", at |-> conf.host, headers |-> EmptyMap]
        ELSE [kind |-> "hostHeaders", at |-> conf.host,
              headers |-> auth @@ serverOnly @@ static]

\* C16: every generation pass hands the code-generation engine the same schema
\* spec, one entry per client as the client's resolved configuration gives it; the
\* server-only headers of the first pass are in every later pass.
C16_SameSchemaSpecEveryPass ==
    \A i \in Collected :
        /\ Len(passes[i].schema) = Len(ctxClients)
        /\ \A j \in 1..Len(ctxClients) :
               passes[i].schema[j] = ExpectedEntry(ctxClients[j])

====
